---- MODULE Spec2Model ----
(***************************************************************************)
(* Chat pipeline of team-applesauce/ui: the browser chat page               *)
(* (src/src/app/chat/page.tsx, ChatPage) with its incremental SSE parser,  *)
(* its thread-identifier latch and its cancellation handling, and the      *)
(* relay (src/src/app/api/chat/route.ts, POST) with the token exchange of  *)
(* getAccessToken.                                                         *)
(*                                                                         *)
(* Text is modelled as a sequence of tokens.  On the wire a token is one   *)
(* byte (or an indivisible run of bytes); after decoding it is one         *)
(* character (or run of characters).  A network chunk is any non-empty     *)
(* prefix of the bytes still in flight, so a chunk may end inside a line,  *)
(* inside the `data: ` prefix or inside a two-byte character.              *)
(***************************************************************************)
EXTENDS Integers, Sequences, FiniteSets, TLC

\* ------------------------------------------------------------------ bounds
MaxLines      == 2   \* lines per response body, parser specification
MaxLog        == 4   \* handleSend is not called on a log longer than MaxLog - 2
MaxNow        == 1   \* largest value Date.now() returns

\* ------------------------------------------------------------- JS values
NULL == "<null>"                 \* null / undefined / absent field
Truthy(v) == v \notin {NULL, ""}
NonStrings == {"#7"}             \* a truthy value whose typeof is not 'string'
IsString(v) == v # NULL /\ v \notin NonStrings
Or2(a, b) == IF Truthy(a) THEN a ELSE b
Or3(a, b, c) == Or2(a, Or2(b, c))

\* ------------------------------------------------------------------ text
NL   == "\n"
SP   == " "
DATA == "data:"                  \* the five characters d a t a :
DONE == "[DONE]"
LEAD == "0xC3"                   \* first byte of the two-byte character e-acute
CONT == "0xA9"                   \* second byte of it
EACUTE == "e'"                   \* the decoded character
FFFD == "U+FFFD"                 \* replacement character
REPL == "0xEFBFBD"               \* the three bytes of the replacement character

RECURSIVE Concat(_)
Concat(ss) == IF ss = <<>> THEN <<>> ELSE Head(ss) \o Concat(Tail(ss))

\* TextDecoder.decode(value, {stream: true}): pend is the decoder's held
\* lead byte (NULL when none); returns the text and the new held byte.
RECURSIVE decode(_, _, _)
decode(pend, bytes, out) ==
  IF bytes = <<>> THEN [text |-> out, pend |-> pend]
  ELSE LET b == Head(bytes) IN
       IF pend # NULL
       THEN IF b = CONT THEN decode(NULL, Tail(bytes), Append(out, EACUTE))
            ELSE decode(NULL, bytes, Append(out, FFFD))
       ELSE IF b = LEAD THEN decode(LEAD, Tail(bytes), out)
            ELSE IF b = CONT THEN decode(NULL, Tail(bytes), Append(out, FFFD))
            ELSE decode(NULL, Tail(bytes), Append(out, IF b = REPL THEN FFFD ELSE b))

\* TextEncoder.encode(text): the UTF-8 bytes of the characters of text.
RECURSIVE encode(_)
encode(text) ==
  IF text = <<>> THEN <<>>
  ELSE LET c == Head(text) IN
       (IF c = EACUTE THEN <<LEAD, CONT>> ELSE IF c = FFFD THEN <<REPL>> ELSE <<c>>)
         \o encode(Tail(text))

\* String.prototype.split('\n'): k newlines give k+1 pieces.
RECURSIVE split(_, _, _)
split(s, cur, acc) ==
  IF s = <<>> THEN Append(acc, cur)
  ELSE IF Head(s) = NL THEN split(Tail(s), <<>>, Append(acc, cur))
       ELSE split(Tail(s), Append(cur, Head(s)), acc)

Front(s) == SubSeq(s, 1, Len(s) - 1)
Last(s)  == s[Len(s)]

\* String.prototype.trim()
RECURSIVE trimStart(_)
trimStart(s) == IF s # <<>> /\ Head(s) = SP THEN trimStart(Tail(s)) ELSE s
RECURSIVE trimEnd(_)
trimEnd(s) == IF s # <<>> /\ Last(s) = SP THEN trimEnd(Front(s)) ELSE s
trim(s) == trimEnd(trimStart(s))

startsWith(s, p) == Len(s) >= Len(p) /\ SubSeq(s, 1, Len(p)) = p
DataPrefix == <<DATA, SP>>                 \* 'data: ', six characters
slice6(s) == SubSeq(s, 3, Len(s))          \* .slice(6) of a line that starts with 'data: '

\* ---------------------------------------------------------- JSON payloads
NoFields == [choices |-> NULL, content |-> NULL, event |-> NULL,
             d_content |-> NULL, d_tool_name |-> NULL, d_name |-> NULL,
             tool_name |-> NULL, thread_id |-> NULL, d_thread_id |-> NULL,
             c_thread_id |-> NULL]

\* The upstream records of the model: token |-> the object JSON.parse yields.
\* Field d_x is data.x, c_x is context.x, choices is choices[0].delta.content.
ParserRecords == {"{hi}", "{there}", "{tool}", "{tool2}", "{run.completed}",
                  "{message.completed}", "{T1}", "{data.T2}"}

\* Records that meet several rules of the classification at once.
ClassifyRecords == {"{all}", "{step.content}", "{7.data.T2}", "{T1.data.T2}",
                    "{context.T3}"}

Records ==
  [ j \in ParserRecords \cup ClassifyRecords |->
    CASE j = "{hi}"                -> [NoFields EXCEPT !.choices = "Hi"]
      [] j = "{there}"             -> [NoFields EXCEPT !.choices = " there"]
      [] j = "{tool}"              -> [NoFields EXCEPT !.event = "run.step.started",
                                                       !.d_tool_name = "search"]
      [] j = "{tool2}"             -> [NoFields EXCEPT !.event = "run.step.started",
                                                       !.d_name = "lookup",
                                                       !.tool_name = "other"]
      [] j = "{run.completed}"     -> [NoFields EXCEPT !.event = "run.completed"]
      [] j = "{message.completed}" -> [NoFields EXCEPT !.event = "message.completed"]
      [] j = "{T1}"                -> [NoFields EXCEPT !.thread_id = "T1"]
      [] j = "{data.T2}"           -> [NoFields EXCEPT !.d_thread_id = "T2",
                                                       !.content = "ok"]
      [] j = "{all}"               -> [NoFields EXCEPT !.choices = "A",
                                                       !.content = "B",
                                                       !.event = "message.delta",
                                                       !.d_content = "C"]
      [] j = "{step.content}"      -> [NoFields EXCEPT !.event = "run.step.completed",
                                                       !.content = "B"]
      [] j = "{7.data.T2}"         -> [NoFields EXCEPT !.thread_id = "#7",
                                                       !.d_thread_id = "T2"]
      [] j = "{T1.data.T2}"        -> [NoFields EXCEPT !.thread_id = "T1",
                                                       !.d_thread_id = "T2"]
      [] j = "{context.T3}"        -> [NoFields EXCEPT !.c_thread_id = "T3"] ]

JsonNull == "null"               \* the JSON text null

\* JSON.parse(jsonStr): surrounding whitespace is allowed; anything that is
\* not exactly one JSON value is a SyntaxError.
IsJson(s) == Len(trim(s)) = 1 /\ trim(s)[1] \in DOMAIN Records \cup {JsonNull}
IsRecord(s) == Len(trim(s)) = 1 /\ trim(s)[1] \in DOMAIN Records
JSONparse(s) == Records[trim(s)[1]]


\* ------------------------------------------------------- response bodies
DataLine(payload) == DataPrefix \o payload

\* The lines an upstream response is made of, as bytes.
ParserLines ==
  { DataLine(<<j>>) : j \in ParserRecords } \cup
  { DataLine(<<DONE>>),            \* the sentinel
    DataLine(<<"not json">>),      \* a payload that is not JSON
    DataLine(<<JsonNull>>),        \* a payload that is the JSON value null
    <<SP, DATA, SP, "{hi}", SP>>,  \* a record line with surrounding blanks
    <<LEAD, CONT>>,                \* a plain-text line holding a two-byte character
    <<":", "ping">>,               \* a comment
    <<>> }                         \* an empty line

\* The bodies of the page specification.
LifeBodies ==
  { <<>>,
    DataLine(<<"{hi}">>) \o <<NL>>,
    DataLine(<<"{hi}">>) \o <<NL>> \o DataLine(<<DONE>>) \o <<NL>>,
    DataLine(<<"{T1}">>) \o <<NL>>,
    DataLine(<<"{data.T2}">>) \o <<NL>>,
    DataLine(<<"{T1}">>) \o <<NL>> \o DataLine(<<"{data.T2}">>) \o <<NL>>,
    DataLine(<<"{hi}">>) \o <<NL>> \o DataLine(<<"{T1}">>),
    DataLine(<<"{tool}">>) \o <<NL>> }

\* Every body of at most max lines of ls; each line ends with a newline,
\* except that the last one may lack it.
BodiesOf(ls, max) ==
  LET whole == { Concat([i \in 1..Len(f) |-> f[i] \o <<NL>>]) :
                   f \in UNION { [1..k -> ls] : k \in 0..max } }
  IN  whole \cup { Front(b) : b \in whole \ {<<>>} }

ParserBodies == BodiesOf(ParserLines, MaxLines)

\* Lines that are not records, and records that meet several rules.
ClassifyLines ==
  { DataLine(<<j>>) : j \in ClassifyRecords } \cup
  { DataLine(<<DONE>>),            \* the sentinel
    <<SP>>,                        \* a blank line
    <<SP, "ok", SP>>,              \* a plain-text line with surrounding blanks
    <<DATA, SP>>,                  \* 'data: ' with nothing after it
    <<":", "ping">> }              \* a comment

ClassifyBodies == BodiesOf(ClassifyLines, MaxLines)

NoId == 0 - 1                      \* no message id

\* What the user may have typed into the input box.
Inputs == { <<"q">>, <<SP>> }

\* ------------------------------------------------------------------ state
VARIABLES
  messages,           \* useState<Message[]>: sequence of [id, role, content]
  isLoading,          \* useState(false)
  loadingState,       \* useState<LoadingState>('idle')
  toolCallName,       \* useState<string | null>(null)
  error,              \* useState<string | null>(null)
  threadId,           \* useState<string | null>(null)
  threadIdRef,        \* useRef: threadIdRef.current
  abortControllerRef, \* useRef: abortControllerRef.current, NULL or "controller"
  localStorage,       \* the slot 'watson_thread_id'
  now,                \* the last value Date.now() returned
  pc,                 \* where the running handleSend is suspended
  assistantMessageId, \* handleSend's assistantMessageId
  threadIdSeen,       \* the threadId the running handleSend closed over
  pend,               \* the TextDecoder's held partial character
  buffer,             \* handleSend's buffer
  lines,              \* the lines the for loop still has to visit
  wire,               \* response bytes not yet returned by reader.read()
  received,           \* history: the bytes read in this exchange
  line,               \* history: <<l>> when l is the line the for loop visited last
  sawDone,            \* history: the for loop met the sentinel in this exchange
  stopped,            \* history: <<m>> when handleStop left assistant message m
  requestBody,        \* handleSend's requestBody.thread_id (NULL: no such field)
  closed,             \* the response stream was closed by the relay
  rpc,                \* where the relay's POST of the running exchange is
  thread_id,          \* POST's thread_id, from the request body
  headers,            \* <<h>> once POST called upstream with X-IBM-THREAD-ID h
  watsonBody,         \* upstream body bytes not yet returned by the relay's reader.read()
  relayPend,          \* the relay TextDecoder's held partial character
  upstreamRead,       \* history: the upstream bytes the relay has read
  enqueued,           \* history: the bytes the relay has enqueued downstream
  response,           \* <<r>> once POST returned the Response r
  tokenResponse,      \* <<r>> once the identity service answered getAccessToken with r
  watsonResponse      \* <<r>> once the upstream service answered POST with r

vars == << messages, isLoading, loadingState, toolCallName, error, threadId,
           threadIdRef, abortControllerRef, localStorage, now, pc,
           assistantMessageId, threadIdSeen, pend, buffer,
           lines, wire, received, line, sawDone, stopped, requestBody, closed,
           rpc, thread_id, headers, watsonBody, relayPend, upstreamRead,
           enqueued, response, tokenResponse, watsonResponse >>

page   == << messages, isLoading, loadingState, toolCallName, error, threadId,
             threadIdRef, abortControllerRef, localStorage, now, pc,
             assistantMessageId, threadIdSeen, pend, buffer, lines, received,
             line, sawDone, stopped, requestBody >>
ui     == << isLoading, loadingState, toolCallName, error >>
thread == << threadId, threadIdRef, localStorage >>
locals == << assistantMessageId, threadIdSeen, requestBody >>
reader == << pend, buffer, lines, wire, received, line, sawDone, closed >>
route  == << thread_id, headers, watsonBody, relayPend, upstreamRead, enqueued,
             response, tokenResponse, watsonResponse >>
server == << rpc, thread_id, headers, watsonBody, relayPend, upstreamRead,
             enqueued, response, tokenResponse, watsonResponse >>

Init ==
  /\ messages = <<>>
  /\ isLoading = FALSE
  /\ loadingState = "idle"
  /\ toolCallName = NULL
  /\ error = NULL
  /\ threadId = NULL
  /\ threadIdRef = NULL
  /\ abortControllerRef = NULL
  /\ localStorage = NULL
  /\ now = 0
  /\ pc = "idle"
  /\ assistantMessageId = NoId
  /\ threadIdSeen = NULL
  /\ pend = NULL
  /\ buffer = <<>>
  /\ lines = <<>>
  /\ wire = <<>>
  /\ received = <<>>
  /\ line = <<>>
  /\ sawDone = FALSE
  /\ stopped = <<>>
  /\ requestBody = NULL
  /\ closed = FALSE
  /\ rpc = "idle"
  /\ thread_id = NULL
  /\ headers = <<>>
  /\ watsonBody = <<>>
  /\ relayPend = NULL
  /\ upstreamRead = <<>>
  /\ enqueued = <<>>
  /\ response = <<>>
  /\ tokenResponse = <<>>
  /\ watsonResponse = <<>>

\* The running handleSend is suspended at an await (or none is running):
\* only then can another event handler run.
Suspended == pc \in {"idle", "fetch", "json", "read"}

\* Mutant of appendTo: the text is put in front of the content.
appendTo_front(msgs, id, text) ==
  [i \in DOMAIN msgs |->
     IF msgs[i].id = id THEN [msgs[i] EXCEPT !.content = text \o @] ELSE msgs[i]]

\* setMessages(prev => prev.map(msg => msg.id === id ? {...msg, content: msg.content + text} : msg))
appendTo(msgs, id, text) ==
  [i \in DOMAIN msgs |->
     IF msgs[i].id = id THEN [msgs[i] EXCEPT !.content = @ \o text] ELSE msgs[i]]

\* Mutant of removeId: a message that has content is kept.
removeId_ifEmpty(msgs, id) ==
  SelectSeq(msgs, LAMBDA m : ~(m.id = id /\ m.content = <<>>))

\* setMessages(prev => prev.filter(msg => msg.id !== id))
RECURSIVE removeId(_, _)
removeId(msgs, id) ==
  IF msgs = <<>> THEN <<>>
  ELSE IF Head(msgs).id = id THEN removeId(Tail(msgs), id)
       ELSE <<Head(msgs)>> \o removeId(Tail(msgs), id)

\* The state the for loop body writes, as one record.
Conv == [messages |-> messages, loadingState |-> loadingState,
         toolCallName |-> toolCallName, threadId |-> threadId,
         threadIdRef |-> threadIdRef, localStorage |-> localStorage]

\* Mutant of applyContent: the content rules exclude one another (else if).
applyContent_firstOnly(c, data, id) ==
  LET delta == data.event = "message.delta" /\ Truthy(data.d_content)
  IN  IF Truthy(data.choices)
      THEN [c EXCEPT !.messages = appendTo(@, id, <<data.choices>>)]
      ELSE IF Truthy(data.content)
      THEN [c EXCEPT !.messages = appendTo(@, id, <<data.content>>)]
      ELSE IF delta
      THEN [c EXCEPT !.messages = appendTo(@, id, <<data.d_content>>),
                     !.loadingState = "streaming"]
      ELSE c

\* Lines 160-193: the three content rules.
applyContent(c, data, id) ==
  LET m1 == IF Truthy(data.choices)
            THEN appendTo(c.messages, id, <<data.choices>>) ELSE c.messages
      m2 == IF Truthy(data.content)
            THEN appendTo(m1, id, <<data.content>>) ELSE m1
      delta == data.event = "message.delta" /\ Truthy(data.d_content)
      m3 == IF delta THEN appendTo(m2, id, <<data.d_content>>) ELSE m2
  IN  [c EXCEPT !.messages = m3,
                !.loadingState = IF delta THEN "streaming" ELSE @]

\* Mutant of applyPhase: a completion event does not clear the tool name.
applyPhase_keepsTool(c, data) ==
  LET c4 == IF data.event \in {"run.step.thinking", "planning"}
            THEN [c EXCEPT !.loadingState = "thinking"] ELSE c
      toolName == Or3(data.d_tool_name, data.d_name, data.tool_name)
      c5 == IF data.event = "run.step.started" /\ Truthy(toolName)
            THEN [c4 EXCEPT !.loadingState = "tool-call", !.toolCallName = toolName]
            ELSE c4
      c6 == IF /\ data.event \in {"run.step.completed", "run.step.delta"}
               /\ (Truthy(data.d_content) \/ Truthy(data.content))
            THEN [c5 EXCEPT !.loadingState = "streaming"] ELSE c5
  IN  IF data.event \in {"message.completed", "run.completed"}
      THEN [c6 EXCEPT !.loadingState = "idle"]
      ELSE c6

\* Lines 195-220: the phase rules.
applyPhase(c, data) ==
  LET c4 == IF data.event \in {"run.step.thinking", "planning"}
            THEN [c EXCEPT !.loadingState = "thinking"] ELSE c
      toolName == Or3(data.d_tool_name, data.d_name, data.tool_name)
      c5 == IF data.event = "run.step.started" /\ Truthy(toolName)
            THEN [c4 EXCEPT !.loadingState = "tool-call", !.toolCallName = toolName]
            ELSE c4
      c6 == IF /\ data.event \in {"run.step.completed", "run.step.delta"}
               /\ (Truthy(data.d_content) \/ Truthy(data.content))
            THEN [c5 EXCEPT !.loadingState = "streaming"] ELSE c5
  IN  IF data.event \in {"message.completed", "run.completed"}
      THEN [c6 EXCEPT !.loadingState = "idle", !.toolCallName = NULL]
      ELSE c6

\* Mutant of applyThread: the identifier of the record is taken although one
\* is held.
applyThread_overwrites(c, data, seen) ==
  LET receivedThreadId == Or3(data.thread_id, data.d_thread_id, data.c_thread_id)
  IN  IF Truthy(receivedThreadId) /\ IsString(receivedThreadId)
      THEN [c EXCEPT !.threadId = receivedThreadId,
                     !.threadIdRef = receivedThreadId,
                     !.localStorage = receivedThreadId]
      ELSE c

\* Lines 222-243: the thread identifier latch.  seen is the threadId the
\* running handleSend closed over.
applyThread(c, data, seen) ==
  LET currentThreadId == Or3(c.threadIdRef, seen, c.localStorage)
      receivedThreadId == Or3(data.thread_id, data.d_thread_id, data.c_thread_id)
  IN  IF ~Truthy(currentThreadId) /\ Truthy(receivedThreadId) /\ IsString(receivedThreadId)
      THEN [c EXCEPT !.threadId = receivedThreadId,
                     !.threadIdRef = receivedThreadId,
                     !.localStorage = receivedThreadId]
      ELSE c

\* Lines 158-243: a payload that parsed.
applyRecord(c, data, id, seen) ==
  applyThread(applyPhase(applyContent(c, data, id), data), data, seen)

\* Line 154: the payload of the line is the sentinel, the for loop breaks.
isDone(l) ==
  LET trimmedLine == trim(l)
  IN  /\ trimmedLine # <<>>
      /\ ~startsWith(trimmedLine, <<":">>)
      /\ startsWith(trimmedLine, DataPrefix)
      /\ slice6(trimmedLine) = <<DONE>>

\* Mutant of applyLine: the catch appends the line with its 'data: ' prefix.
applyLine_keepsPrefix(c, l, id, seen) ==
  LET trimmedLine == trim(l)
      jsonStr == slice6(trimmedLine)
  IN  IF trimmedLine = <<>> \/ startsWith(trimmedLine, <<":">>) THEN c
      ELSE IF startsWith(trimmedLine, DataPrefix)
      THEN IF IsJson(jsonStr) /\ IsRecord(jsonStr)
           THEN applyRecord(c, JSONparse(jsonStr), id, seen)
           ELSE [c EXCEPT !.messages = appendTo(@, id, trimmedLine)]
      ELSE [c EXCEPT !.messages = appendTo(@, id, trimmedLine \o <<NL>>)]

\* Mutant of applyLine: a plain-text line is appended without the line break.
applyLine_noBreak(c, l, id, seen) ==
  LET trimmedLine == trim(l)
      jsonStr == slice6(trimmedLine)
  IN  IF trimmedLine = <<>> \/ startsWith(trimmedLine, <<":">>) THEN c
      ELSE IF startsWith(trimmedLine, DataPrefix)
      THEN IF IsJson(jsonStr) /\ IsRecord(jsonStr)
           THEN applyRecord(c, JSONparse(jsonStr), id, seen)
           \* JSON.parse threw, or data.choices threw on null: the catch of line 244
           ELSE IF jsonStr # <<>>
                THEN [c EXCEPT !.messages = appendTo(@, id, jsonStr)]
                ELSE c
      ELSE [c EXCEPT !.messages = appendTo(@, id, trimmedLine)]

\* Lines 143-266: one iteration of the for loop that does not break.
applyLine(c, l, id, seen) ==
  LET trimmedLine == trim(l)
      jsonStr == slice6(trimmedLine)
  IN  IF trimmedLine = <<>> \/ startsWith(trimmedLine, <<":">>) THEN c
      ELSE IF startsWith(trimmedLine, DataPrefix)
      THEN IF IsJson(jsonStr) /\ IsRecord(jsonStr)
           THEN applyRecord(c, JSONparse(jsonStr), id, seen)
           \* JSON.parse threw, or data.choices threw on null: the catch of line 244
           ELSE IF jsonStr # <<>>
                THEN [c EXCEPT !.messages = appendTo(@, id, jsonStr)]
                ELSE c
      ELSE [c EXCEPT !.messages = appendTo(@, id, trimmedLine \o <<NL>>)]

\* Lines 142-267: the for loop over the complete lines of one chunk.
RECURSIVE applyLines(_, _, _, _)
applyLines(c, ls, id, seen) ==
  IF ls = <<>> \/ isDone(Head(ls)) THEN c
  ELSE applyLines(applyLine(c, Head(ls), id, seen), Tail(ls), id, seen)

\* Mutant of applyRest: the residual is appended trimmed.
applyRest_trimmed(c, buf, id) ==
  IF trim(buf) # <<>> THEN [c EXCEPT !.messages = appendTo(@, id, trim(buf))] ELSE c

\* Lines 270-279: the residual buffer at the end of the stream.
applyRest(c, buf, id) ==
  IF trim(buf) # <<>> THEN [c EXCEPT !.messages = appendTo(@, id, buf)] ELSE c

\* Lines 39-47: the effect that runs when a render sees a changed threadId.
saveThreadId(c) ==
  IF Truthy(c.threadId)
  THEN [c EXCEPT !.localStorage = c.threadId, !.threadIdRef = c.threadId]
  ELSE [c EXCEPT !.threadIdRef = NULL]

\* The render after a step that left the conversation state c.
rendered(c) == IF c.threadId # threadId THEN saveThreadId(c) ELSE c

setConv(c) ==
  /\ messages' = c.messages
  /\ loadingState' = c.loadingState
  /\ toolCallName' = c.toolCallName
  /\ threadId' = c.threadId
  /\ threadIdRef' = c.threadIdRef
  /\ localStorage' = c.localStorage

\* Mutant of finally: the phase is left as it was.
finally_keepsPhase(c) == [c EXCEPT !.toolCallName = NULL]

\* Lines 290-295: the finally block of handleSend.
finally(c) == [c EXCEPT !.loadingState = "idle", !.toolCallName = NULL]

\* The connection of the exchange is gone, and with it the relay's call.
disconnected ==
  /\ rpc' = "idle"
  /\ thread_id' = NULL
  /\ headers' = <<>>
  /\ watsonBody' = <<>>
  /\ relayPend' = NULL
  /\ upstreamRead' = <<>>
  /\ enqueued' = <<>>
  /\ response' = <<>>
  /\ tokenResponse' = <<>>
  /\ watsonResponse' = <<>>

\* handleSend has returned: its locals, its reader and its decoder are gone.
\* The histories received and line stay until the next handleSend.
returned ==
  /\ pc' = "idle"
  /\ threadIdSeen' = NULL /\ requestBody' = NULL
  /\ pend' = NULL /\ buffer' = <<>> /\ lines' = <<>> /\ wire' = <<>>
  /\ closed' = FALSE
  /\ disconnected
  /\ UNCHANGED << assistantMessageId, received, line, sawDone >>

\* The identifier handleSend sends with the next request (line 83).
Held == Or3(threadIdRef, threadId, localStorage)

\* ---------------------------------------------------------------- actions
\* Mutant of handleSend: the early return on isLoading is missing.
handleSend_noGuard(max, latest) ==
  /\ Suspended
  /\ Len(messages) + 2 <= max
  /\ \E input \in Inputs, t1 \in now..latest, t2 \in now..latest :
    /\ t1 <= t2
    /\ trim(input) # <<>>
    /\ messages' = Append(messages, [id |-> t1, role |-> "user", content |-> trim(input)])
    /\ isLoading' = TRUE
    /\ loadingState' = "thinking"
    /\ toolCallName' = NULL
    /\ error' = NULL
    /\ abortControllerRef' = "controller"
    /\ assistantMessageId' = t2 + 1
    /\ threadIdSeen' = threadId
    /\ requestBody' = IF Truthy(Held) THEN Held ELSE NULL
    /\ rpc' = "request"
    /\ now' = t2
    /\ pc' = "fetch"
    /\ pend' = NULL /\ buffer' = <<>> /\ lines' = <<>> /\ wire' = <<>>
    /\ received' = <<>> /\ line' = <<>> /\ sawDone' = FALSE
    /\ closed' = FALSE
    /\ stopped' = <<>>
    /\ UNCHANGED << thread, route >>

\* Lines 57-97: handleSend up to the await of fetch.  t1 and t2 are what the
\* two calls of Date.now() return, at most latest; the log holds at most
\* max messages after the exchange.
handleSend(max, latest) ==
  /\ Suspended
  /\ Len(messages) + 2 <= max
  /\ ~isLoading
  /\ \E input \in Inputs, t1 \in now..latest, t2 \in now..latest :
    /\ t1 <= t2
    /\ trim(input) # <<>>
    /\ messages' = Append(messages, [id |-> t1, role |-> "user", content |-> trim(input)])
    /\ isLoading' = TRUE
    /\ loadingState' = "thinking"
    /\ toolCallName' = NULL
    /\ error' = NULL
    /\ abortControllerRef' = "controller"
    /\ assistantMessageId' = t2 + 1
    /\ threadIdSeen' = threadId
    /\ requestBody' = IF Truthy(Held) THEN Held ELSE NULL
    /\ rpc' = "request"
    /\ now' = t2
    /\ pc' = "fetch"
    /\ pend' = NULL /\ buffer' = <<>> /\ lines' = <<>> /\ wire' = <<>>
    /\ received' = <<>> /\ line' = <<>> /\ sawDone' = FALSE
    /\ closed' = FALSE
    /\ stopped' = <<>>
    /\ UNCHANGED << thread, route >>

\* Lines 97-129: fetch resolved with an ok response whose body is body.
fetchOk(bodies) ==
  /\ pc = "fetch"
  /\ \E body \in bodies :
    /\ messages' = Append(messages, [id |-> assistantMessageId, role |-> "assistant",
                                     content |-> <<>>])
    /\ wire' = body
    /\ closed' = TRUE
    /\ pc' = "read"
    /\ UNCHANGED << ui, thread, abortControllerRef, now, locals, pend, buffer,
                    lines, received, line, sawDone, stopped, server >>

\* Mutant of fetchNotOk: the assistant message is created before the
\* response is looked at.
fetchNotOk_pushes ==
  /\ pc = "fetch"
  /\ pc' = "json"
  /\ messages' = Append(messages, [id |-> assistantMessageId, role |-> "assistant",
                                   content |-> <<>>])
  /\ UNCHANGED << ui, thread, abortControllerRef, now, locals, reader, stopped, server >>

\* Lines 106-107: fetch resolved with a response that is not ok; handleSend
\* awaits response.json().
fetchNotOk ==
  /\ pc = "fetch"
  /\ pc' = "json"
  /\ UNCHANGED << messages, ui, thread, abortControllerRef, now, locals, reader,
                  stopped, server >>

\* Mutant of caught: the failed exchange also forgets the thread identifier.
caught_clearsThread ==
  /\ error' = "error"
  /\ messages' = removeId(messages, assistantMessageId)
  /\ isLoading' = FALSE
  /\ loadingState' = "idle"
  /\ toolCallName' = NULL
  /\ abortControllerRef' = NULL
  /\ returned
  /\ threadId' = NULL /\ threadIdRef' = NULL /\ localStorage' = NULL
  /\ UNCHANGED << now, stopped >>

\* Lines 280-295: an error that is not an AbortError reaches the catch.
caught ==
  /\ error' = "error"
  /\ messages' = removeId(messages, assistantMessageId)
  /\ isLoading' = FALSE
  /\ loadingState' = "idle"
  /\ toolCallName' = NULL
  /\ abortControllerRef' = NULL
  /\ returned
  /\ UNCHANGED << thread, now, stopped >>

\* Line 97: fetch rejected (network failure).
fetchRejected == pc = "fetch" /\ caught

\* Line 108: the error response was read and the Error is thrown.
httpError == pc = "json" /\ caught

\* Line 132: reader.read() rejected (the relay errored the stream).
readError == pc = "read" /\ caught

\* Mutant of readChunk: the decoded text replaces the buffer (= for +=).
readChunk_forgetsBuffer ==
  /\ pc = "read"
  /\ \E n \in 1..Len(wire) :
    LET value == SubSeq(wire, 1, n)
        d     == decode(pend, value, <<>>)
        parts == split(d.text, <<>>, <<>>)
    IN  /\ wire' = SubSeq(wire, n + 1, Len(wire))
        /\ received' = received \o value
        /\ pend' = d.pend
        /\ lines' = Front(parts)
        /\ buffer' = Last(parts)
        /\ pc' = IF Front(parts) = <<>> THEN "read" ELSE "lines"
        /\ UNCHANGED << messages, ui, thread, abortControllerRef, now, locals,
                        line, sawDone, stopped, closed, server >>

\* Lines 132-140: reader.read() returned the next n bytes.
readChunk ==
  /\ pc = "read"
  /\ \E n \in 1..Len(wire) :
    LET value == SubSeq(wire, 1, n)
        d     == decode(pend, value, <<>>)
        parts == split(buffer \o d.text, <<>>, <<>>)
    IN  /\ wire' = SubSeq(wire, n + 1, Len(wire))
        /\ received' = received \o value
        /\ pend' = d.pend
        /\ lines' = Front(parts)
        /\ buffer' = Last(parts)
        /\ pc' = IF Front(parts) = <<>> THEN "read" ELSE "lines"
        /\ UNCHANGED << messages, ui, thread, abortControllerRef, now, locals,
                        line, sawDone, stopped, closed, server >>

\* Lines 142-267: one iteration of the for loop that runs to its end.
forLine ==
  /\ pc = "lines"
  /\ ~isDone(Head(lines))
  /\ setConv(rendered(applyLine(Conv, Head(lines), assistantMessageId, threadIdSeen)))
  /\ line' = <<Head(lines)>>
  /\ lines' = Tail(lines)
  /\ pc' = IF Tail(lines) = <<>> THEN "read" ELSE "lines"
  /\ UNCHANGED << isLoading, error, abortControllerRef, now, locals, pend, buffer,
                  wire, received, sawDone, stopped, closed, server >>

\* Mutant of forBreak: the sentinel is skipped like a comment (continue for
\* break).
forBreak_continue ==
  /\ pc = "lines"
  /\ isDone(Head(lines))
  /\ line' = <<Head(lines)>>
  /\ lines' = Tail(lines)
  /\ sawDone' = TRUE
  /\ pc' = IF Tail(lines) = <<>> THEN "read" ELSE "lines"
  /\ UNCHANGED << messages, ui, thread, abortControllerRef, now, locals, pend,
                  buffer, wire, received, stopped, closed, server >>

\* Lines 154-156: the iteration that meets the sentinel leaves the for loop.
forBreak ==
  /\ pc = "lines"
  /\ isDone(Head(lines))
  /\ line' = <<Head(lines)>>
  /\ lines' = <<>>
  /\ sawDone' = TRUE
  /\ pc' = "read"
  /\ UNCHANGED << messages, ui, thread, abortControllerRef, now, locals, pend,
                  buffer, wire, received, stopped, closed, server >>

\* Lines 134, 270-279, 290-295: reader.read() returned done.
readDone ==
  /\ pc = "read"
  /\ wire = <<>>
  /\ closed
  /\ setConv(finally(applyRest(Conv, buffer, assistantMessageId)))
  /\ isLoading' = FALSE
  /\ abortControllerRef' = NULL
  /\ returned
  /\ UNCHANGED << error, now, stopped >>

\* The assistant message of the running exchange: the last message of the
\* log, unless handleNewConversation emptied the log meanwhile.
current(msgs, id) ==
  IF msgs # <<>> /\ Last(msgs).id = id /\ Last(msgs).role = "assistant"
  THEN <<Last(msgs)>> ELSE <<>>

\* Mutant of handleStop: the controller is dropped without abort(), so the
\* exchange goes on.
handleStop_noAbort ==
  /\ Suspended
  /\ isLoading
  /\ abortControllerRef # NULL
  /\ abortControllerRef' = NULL
  /\ isLoading' = FALSE
  /\ stopped' = IF pc = "read" THEN current(messages, assistantMessageId) ELSE <<>>
  /\ UNCHANGED << messages, loadingState, toolCallName, error, thread, now, pc,
                  locals, reader, server >>

\* Lines 305-311, 280-284, 290-295: handleStop; the aborted await rejects
\* with an AbortError, the catch returns and the finally block runs before
\* any other event.
handleStop ==
  /\ Suspended
  /\ isLoading
  /\ abortControllerRef # NULL
  /\ abortControllerRef' = NULL
  /\ isLoading' = FALSE
  /\ loadingState' = "idle"
  /\ toolCallName' = NULL
  /\ returned
  /\ stopped' = IF pc = "read" THEN current(messages, assistantMessageId) ELSE <<>>
  /\ UNCHANGED << messages, error, thread, now >>

\* Mutant of handleNewConversation: localStorage.removeItem is missing.
handleNewConversation_keepsStorage ==
  /\ Suspended
  /\ setConv(rendered([Conv EXCEPT !.messages = <<>>, !.threadId = NULL,
                                   !.threadIdRef = NULL]))
  /\ error' = NULL
  /\ stopped' = <<>>
  /\ UNCHANGED << isLoading, abortControllerRef, now, pc, locals, reader, server >>

\* Lines 313-319 and the effect of lines 39-47.
handleNewConversation ==
  /\ Suspended
  /\ setConv(rendered([Conv EXCEPT !.messages = <<>>, !.threadId = NULL,
                                   !.threadIdRef = NULL, !.localStorage = NULL]))
  /\ error' = NULL
  /\ stopped' = <<>>
  /\ UNCHANGED << isLoading, abortControllerRef, now, pc, locals, reader, server >>

\* Line 521: the banner's button.
dismissError ==
  /\ Suspended
  /\ error # NULL
  /\ error' = NULL
  /\ UNCHANGED << messages, isLoading, loadingState, toolCallName, thread,
                  abortControllerRef, now, pc, locals, reader, stopped, server >>

\* Lines 17-47: the page is loaded again; the component state is built anew
\* and the mount effects run.
reload ==
  /\ Suspended
  /\ messages' = <<>>
  /\ isLoading' = FALSE
  /\ loadingState' = "idle"
  /\ toolCallName' = NULL
  /\ error' = NULL
  /\ abortControllerRef' = NULL
  /\ LET savedThreadId == localStorage
     IN  /\ threadId' = IF Truthy(savedThreadId) THEN savedThreadId ELSE NULL
         /\ threadIdRef' = IF Truthy(savedThreadId) THEN savedThreadId ELSE NULL
  /\ pc' = "idle"
  /\ assistantMessageId' = NoId /\ threadIdSeen' = NULL /\ requestBody' = NULL
  /\ pend' = NULL /\ buffer' = <<>> /\ lines' = <<>> /\ wire' = <<>>
  /\ received' = <<>> /\ line' = <<>> /\ sawDone' = FALSE
  /\ closed' = FALSE
  /\ disconnected
  /\ stopped' = <<>>
  /\ UNCHANGED << localStorage, now >>

\* -------------------------------------------------------------- the relay
\* src/src/app/api/chat/route.ts, POST, and getAccessToken of the watson
\* utilities.  The request of the page always has a message (handleSend
\* returns early on blank input) and the deployment has its credentials, so
\* the 400 answer and the throw of getWatsonConfig are not taken.

\* The bodies the upstream service answers with.
RelayBodies ==
  { DataLine(<<"{T1}">>) \o <<NL>>,
    DataLine(<<"{data.T2}">>) \o <<NL>>,
    <<LEAD, CONT, NL>>,              \* a line holding a two-byte character
    <<"ok", LEAD>> }                 \* a stream that ends inside a character

\* What the identity service or the upstream service refuses with.
Refusals == { [status |-> 401, text |-> "unauthorized"],
              [status |-> 503, text |-> "busy"] }

\* Response.ok
ok(r) == r.status \in 200..299

\* new Response(JSON.stringify({error, details, message}), {status})
jsonResponse(status, err, details, message) ==
  [status |-> status, stream |-> FALSE, error |-> err, details |-> details,
   message |-> message]

\* Mutant of internalError: the message of the error is not passed on.
internalError_noMessage(message) ==
  jsonResponse(500, <<"Internal server error">>, NULL, <<>>)

\* Lines 119-131: the catch of POST.
internalError(message) ==
  jsonResponse(500, <<"Internal server error">>, NULL, message)

\* Line 9: POST has read the request body.
POST ==
  /\ rpc = "request"
  /\ thread_id' = requestBody
  /\ rpc' = "token"
  /\ UNCHANGED << page, wire, closed, headers, watsonBody, relayPend, upstreamRead,
                  enqueued, response, tokenResponse, watsonResponse >>

\* getAccessToken lines 16-27, route.ts lines 21 and 119-131: the identity
\* service answered with a status that is not ok; getAccessToken throws.
getAccessTokenRejected ==
  /\ rpc = "token"
  /\ \E e \in Refusals :
       /\ tokenResponse' = <<e>>
       /\ response' = << internalError(<<"Failed to get access token:", e.status, e.text>>) >>
  /\ rpc' = "done"
  /\ UNCHANGED << page, wire, closed, thread_id, headers, watsonBody, relayPend,
                  upstreamRead, enqueued, watsonResponse >>

\* Mutant of fetchWatson: the header is never set.
fetchWatson_noHeader ==
  /\ rpc = "token"
  /\ headers' = << NULL >>
  /\ rpc' = "watson"
  /\ tokenResponse' = << [status |-> 200, text |-> "token"] >>
  /\ UNCHANGED << page, wire, closed, thread_id, watsonBody, relayPend, upstreamRead,
                  enqueued, response, watsonResponse >>

\* Lines 21-58: the token arrived; the upstream request is sent.
fetchWatson ==
  /\ rpc = "token"
  /\ headers' = << IF Truthy(thread_id) THEN thread_id ELSE NULL >>
  /\ rpc' = "watson"
  /\ tokenResponse' = << [status |-> 200, text |-> "token"] >>
  /\ UNCHANGED << page, wire, closed, thread_id, watsonBody, relayPend, upstreamRead,
                  enqueued, response, watsonResponse >>

\* Lines 54 and 119-131: the upstream fetch rejected (network failure).
fetchWatsonRejected ==
  /\ rpc = "watson"
  /\ response' = << internalError(<<"fetch failed">>) >>
  /\ rpc' = "done"
  /\ UNCHANGED << page, wire, closed, thread_id, headers, watsonBody, relayPend,
                  upstreamRead, enqueued, tokenResponse, watsonResponse >>

\* Mutant of watsonNotOk: the status of the answer is always 500.
watsonNotOk_500 ==
  /\ rpc = "watson"
  /\ \E e \in Refusals :
       LET errorText == e.text
       IN  /\ watsonResponse' = <<e>>
           /\ response' = << jsonResponse(500, <<"Watson API error:", e.status>>,
                                          errorText, <<>>) >>
  /\ rpc' = "done"
  /\ UNCHANGED << page, wire, closed, thread_id, headers, watsonBody, relayPend,
                  upstreamRead, enqueued, tokenResponse >>

\* Lines 60-73: the upstream response is not ok.
watsonNotOk ==
  /\ rpc = "watson"
  /\ \E e \in Refusals :
       LET errorText == e.text
       IN  /\ watsonResponse' = <<e>>
           /\ response' = << jsonResponse(e.status, <<"Watson API error:", e.status>>,
                                          errorText, <<>>) >>
  /\ rpc' = "done"
  /\ UNCHANGED << page, wire, closed, thread_id, headers, watsonBody, relayPend,
                  upstreamRead, enqueued, tokenResponse >>

\* Lines 76-81: the upstream response is ok and has no body.
watsonNoBody ==
  /\ rpc = "watson"
  /\ response' = << jsonResponse(500, <<"No response body from Watson API">>, NULL, <<>>) >>
  /\ rpc' = "done"
  /\ watsonResponse' = << [status |-> 200, text |-> ""] >>
  /\ UNCHANGED << page, wire, closed, thread_id, headers, watsonBody, relayPend,
                  upstreamRead, enqueued, tokenResponse >>

\* Lines 83-118: the upstream response is ok; the stream is created and
\* returned.
watsonOk ==
  /\ rpc = "watson"
  /\ \E body \in RelayBodies : watsonBody' = body
  /\ response' = << [status |-> 200, stream |-> TRUE, error |-> <<>>, details |-> NULL,
                     message |-> <<>>] >>
  /\ rpc' = "stream"
  /\ watsonResponse' = << [status |-> 200, text |-> ""] >>
  /\ UNCHANGED << page, wire, closed, thread_id, headers, relayPend, upstreamRead,
                  enqueued, tokenResponse >>

\* Lines 91-102: reader.read() returned the next n upstream bytes; they are
\* decoded, encoded again and enqueued.
forward ==
  /\ rpc = "stream"
  /\ \E n \in 1..Len(watsonBody) :
    LET value == SubSeq(watsonBody, 1, n)
        d     == decode(relayPend, value, <<>>)
        chunk == d.text
    IN  /\ watsonBody' = SubSeq(watsonBody, n + 1, Len(watsonBody))
        /\ relayPend' = d.pend
        /\ upstreamRead' = upstreamRead \o value
        /\ enqueued' = enqueued \o encode(chunk)
        /\ wire' = wire \o encode(chunk)
        /\ UNCHANGED << page, closed, rpc, thread_id, headers, response, tokenResponse, watsonResponse >>

\* Lines 93-96: reader.read() returned done.
close ==
  /\ rpc = "stream"
  /\ watsonBody = <<>>
  /\ closed' = TRUE
  /\ rpc' = "done"
  /\ UNCHANGED << page, wire, route >>

\* Lines 104-107: reader.read() rejected; the stream is put in error.
errorStream ==
  /\ rpc = "stream"
  /\ rpc' = "errored"
  /\ UNCHANGED << page, wire, closed, route >>

\* page.tsx lines 97-129: fetch resolved with the relay's ok response.
fetchStream ==
  /\ pc = "fetch"
  /\ response # <<>>
  /\ ok(response[1])
  /\ messages' = Append(messages, [id |-> assistantMessageId, role |-> "assistant",
                                   content |-> <<>>])
  /\ pc' = "read"
  /\ UNCHANGED << ui, thread, abortControllerRef, now, locals, reader, stopped, server >>

\* page.tsx lines 106-107: fetch resolved with the relay's error response.
fetchError ==
  /\ response # <<>>
  /\ ~ok(response[1])
  /\ fetchNotOk

\* page.tsx line 132: reader.read() rejected because the relay put the
\* stream in error.
readRejected ==
  /\ rpc = "errored"
  /\ readError

\* -------------------------------------------------------- specifications
\* The parser: one exchange over every body of ParserBodies.
NextParse ==
  \/ handleSend(2, 0)
  \/ fetchOk(ParserBodies)
  \/ readChunk
  \/ forLine
  \/ forBreak
  \/ readDone

SpecParse == Init /\ [][NextParse]_vars

\* The classification: one exchange over every body of ClassifyBodies.
NextClassify ==
  \/ handleSend(2, 0)
  \/ fetchOk(ClassifyBodies)
  \/ readChunk
  \/ forLine
  \/ forBreak
  \/ readDone

SpecClassify == Init /\ [][NextClassify]_vars

\* The page: exchanges, failures, cancellation, reset and reload.
Next ==
  \/ handleSend(MaxLog, MaxNow)
  \/ fetchOk(LifeBodies)
  \/ fetchNotOk
  \/ fetchRejected
  \/ httpError
  \/ readError
  \/ readChunk
  \/ forLine
  \/ forBreak
  \/ readDone
  \/ handleStop
  \/ handleNewConversation
  \/ dismissError
  \/ reload

Spec == Init /\ [][Next]_vars

\* The page and the relay: exchanges from request to stream end.
NextRelay ==
  \/ handleSend(MaxLog, 0)
  \/ POST
  \/ getAccessTokenRejected
  \/ fetchWatson
  \/ fetchWatsonRejected
  \/ watsonNotOk
  \/ watsonNoBody
  \/ watsonOk
  \/ forward
  \/ close
  \/ errorStream
  \/ fetchStream
  \/ fetchError
  \/ httpError
  \/ readRejected
  \/ readChunk
  \/ forLine
  \/ readDone

SpecRelay == Init /\ [][NextRelay]_vars

\* ------------------------------------------------------------ properties
\* The content of the assistant message of the exchange with message id id.
Content(msgs, id) ==
  LET m == current(msgs, id) IN IF m = <<>> THEN <<>> ELSE m[1].content

\* Lines 129-295: the read loop, the residual buffer and the finally block
\* when reader.read() returns the whole of bytes as one chunk.
oneChunk(c, bytes, id, seen) ==
  LET d     == decode(NULL, bytes, <<>>)
      parts == split(d.text, <<>>, <<>>)
  IN  finally(applyRest(applyLines(c, Front(parts), id, seen), Last(parts), id))

\* SpecParse: the conversation state when the read loop starts.
Started ==
  [messages |-> << messages[1],
                   [id |-> assistantMessageId, role |-> "assistant", content |-> <<>>] >>,
   loadingState |-> "thinking", toolCallName |-> NULL, threadId |-> NULL,
   threadIdRef |-> NULL, localStorage |-> NULL]

Outcome(c) ==
  << Content(c.messages, assistantMessageId), c.loadingState, c.toolCallName, c.threadId >>

\* SpecParse: handleSend has returned after reading a whole body.
Finished == pc = "idle" /\ assistantMessageId # NoId

\* The complete lines of the bytes read so far.
Complete(bytes) == Front(split(decode(NULL, bytes, <<>>).text, <<>>, <<>>))
Unfinished(bytes) == Last(split(decode(NULL, bytes, <<>>).text, <<>>, <<>>))

\* C1: chunk-boundary independence.  When the exchange has ended, the
\* assistant message content, the phase, the tool name and the thread
\* identifier are what reading the same bytes as one single chunk gives.
C1_ChunkIndependence ==
  Finished => Outcome(Conv) = Outcome(oneChunk(Started, received, assistantMessageId, NULL))

\* C7: once the for loop has met `data: [DONE]`, nothing that follows in the
\* exchange changes the message content, the phase, the tool name or the
\* thread identifier, and no error is raised.  (The finally block, which
\* ends the exchange, is not a line of it.)
C7_DoneIsFinal ==
  [][ sawDone =>
        /\ messages' = messages
        /\ threadId' = threadId
        /\ error' = error
        /\ pc' # "idle" => (loadingState' = loadingState /\ toolCallName' = toolCallName)
    ]_vars

\* C8: the text [DONE] of the sentinel is in no message.
C8_DoneNeverAppended ==
  \A i \in DOMAIN messages :
    \A k \in DOMAIN messages[i].content : messages[i].content[k] # DONE

\* A line that is `data: ` followed by a record whose text is in exactly one
\* of choices[0].delta.content and content.
IsContentLine(l) ==
  LET t == trim(l)
  IN  /\ Len(t) = 3
      /\ startsWith(t, DataPrefix)
      /\ t[3] \in DOMAIN Records
      /\ Truthy(Records[t[3]].choices) # Truthy(Records[t[3]].content)
      /\ Records[t[3]].event = NULL

TextOf(l) ==
  LET r == Records[trim(l)[3]] IN IF Truthy(r.choices) THEN r.choices ELSE r.content

\* C3: in-order application.  When the body is a sequence of complete
\* content-bearing `data: ` lines, the assistant message content at the end
\* of the exchange is the concatenation of their texts in stream order.
C3_InOrder ==
  ( /\ Finished
    /\ Unfinished(received) = <<>>
    /\ \A i \in DOMAIN Complete(received) : IsContentLine(Complete(received)[i]) )
  => Content(messages, assistantMessageId) =
       [i \in DOMAIN Complete(received) |-> TextOf(Complete(received)[i])]

C3_Witness ==
  /\ Finished
  /\ received = DataLine(<<"{hi}">>) \o <<NL>> \o DataLine(<<"{there}">>) \o <<NL>>
  /\ Content(messages, assistantMessageId) = <<"Hi", " there">>

\* The record of a `data: ` line whose payload parses to an object.
RecordOf(l) ==
  LET t == trim(l)
  IN  IF startsWith(t, DataPrefix) /\ IsRecord(slice6(t))
      THEN <<JSONparse(slice6(t))>> ELSE <<>>

\* C4: the iteration that applies a run.step.started record whose tool name
\* resolves leaves the phase tool-call and that tool name; the iteration
\* that applies a message.completed or run.completed record leaves the
\* phase idle and the tool name null.
C4_ToolPhase ==
  [][ (pc = "lines" /\ RecordOf(Head(lines)) # <<>>) =>
        LET r == RecordOf(Head(lines))[1]
            name == IF Truthy(r.d_tool_name) THEN r.d_tool_name
                    ELSE IF Truthy(r.d_name) THEN r.d_name ELSE r.tool_name
        IN  /\ (r.event = "run.step.started" /\ Truthy(name))
                 => (loadingState' = "tool-call" /\ toolCallName' = name)
            /\ r.event \in {"message.completed", "run.completed"}
                 => (loadingState' = "idle" /\ toolCallName' = NULL)
    ]_vars

C4_Witness ==
  /\ pc = "read"
  /\ wire = <<>>
  /\ received = DataLine(<<"{tool}">>) \o <<NL>> \o DataLine(<<"{run.completed}">>) \o <<NL>>
  /\ line = << DataLine(<<"{run.completed}">>) >>
  /\ loadingState = "idle"
  /\ toolCallName = NULL

\* A `data: ` line whose payload is neither the sentinel nor JSON.
IsBadData(l) ==
  LET t == trim(l)
  IN  startsWith(t, DataPrefix) /\ slice6(t) # <<DONE>> /\ ~IsJson(slice6(t))

\* C5: the iteration that meets a `data: ` line whose payload is not JSON
\* appends the payload, without the prefix, to the assistant message, sets
\* no error, changes nothing else and leaves the loop at the next line.
C5_BadJsonAppended ==
  [][ (pc = "lines" /\ IsBadData(Head(lines))) =>
        /\ Content(messages', assistantMessageId) =
             Content(messages, assistantMessageId) \o slice6(trim(Head(lines)))
        /\ error' = NULL
        /\ lines' = Tail(lines)
        /\ pc' \in {"lines", "read"}
        /\ UNCHANGED << isLoading, loadingState, toolCallName, thread >>
    ]_vars

C5_Witness ==
  /\ pc = "read"
  /\ received = DataLine(<<"not json">>) \o <<NL>> \o DataLine(<<"{hi}">>) \o <<NL>>
  /\ Content(messages, assistantMessageId) = <<"not json", "Hi">>
  /\ error = NULL

\* C2: one-time latch.  While an identifier is held, no step other than
\* handleNewConversation changes it, in memory or in storage, whatever
\* identifier the records of this or a later exchange present.
C2_Latch ==
  [][ (Truthy(Held) /\ ~handleNewConversation) =>
        (threadId' = Held /\ threadIdRef' = Held /\ localStorage' = Held)
    ]_vars

C2_Witness ==
  /\ threadId = "T1"
  /\ localStorage = "T1"
  /\ line = << DataLine(<<"{data.T2}">>) >>
  /\ pc = "read"

\* C6: after handleStop has cancelled an exchange whose assistant message
\* had content X, the message is in the log with content X and the error
\* banner is unset, until the next handleSend, handleNewConversation or
\* reload.
C6_StoppedStays ==
  stopped # <<>> => (messages # <<>> /\ Last(messages) = stopped[1] /\ error = NULL)

C6_Witness ==
  /\ stopped # <<>>
  /\ stopped[1].content = <<"Hi">>
  /\ Last(messages).content = <<"Hi">>
  /\ pc = "idle"
  /\ ~isLoading

\* C9: thread-identifier lifecycle.  A held identifier changes only by
\* handleNewConversation, which makes it absent; no end of an exchange
\* clears it; an absent identifier becomes set only by the iteration over a
\* record that carries the new value.
C9_Lifecycle ==
  [][ /\ (Truthy(threadId) /\ threadId' # threadId)
           => (threadId' = NULL /\ handleNewConversation)
      /\ (~Truthy(threadId) /\ Truthy(threadId'))
           => /\ pc = "lines"
              /\ RecordOf(Head(lines)) # <<>>
              /\ threadId' \in { RecordOf(Head(lines))[1].thread_id,
                                 RecordOf(Head(lines))[1].d_thread_id,
                                 RecordOf(Head(lines))[1].c_thread_id }
    ]_vars

C9_Witness ==
  /\ threadId = NULL
  /\ localStorage = NULL
  /\ messages = <<>>
  /\ line = << DataLine(<<"{T1}">>) >>
  /\ pc = "idle"

\* C10: write-through persistence.  After every step the storage slot holds
\* the identifier held in memory, and a reload leaves the identifier that
\* the next request sends as it was.
C10_WriteThrough ==
  [][ /\ threadId' = localStorage'
      /\ threadIdRef' = localStorage'
      /\ reload => Held' = Held
    ]_vars

C10_Witness ==
  /\ threadId = "T1"
  /\ threadIdRef = "T1"
  /\ localStorage = "T1"
  /\ messages = <<>>
  /\ line = <<>>
  /\ pc = "idle"

\* C11: the request of an exchange started while the page holds thread
\* identifier T has thread_id T, and has no thread_id when none is held; the
\* relay's upstream request carries in its X-IBM-THREAD-ID header what the
\* page held when the exchange started, and no such header when it held none.
C11_CarriesThread ==
  [][ /\ (pc = "idle" /\ pc' = "fetch")
           => requestBody' = (IF Truthy(threadId) THEN threadId ELSE NULL)
      /\ (headers = <<>> /\ headers' # <<>>)
           => headers'[1] = (IF Truthy(threadIdSeen) THEN threadIdSeen ELSE NULL)
    ]_vars

C11_Witness ==
  /\ headers = <<"T1">>
  /\ requestBody = "T1"
  /\ threadId = "T1"
  /\ Len(messages) = 3
  /\ rpc = "watson"

\* C12: the step that ends an exchange, by stream end, by error or by
\* cancellation, leaves the phase idle, the tool name null, the loading flag
\* false and the cancellation handle released.
C12_EndResets ==
  [][ (pc # "idle" /\ pc' = "idle") =>
        /\ loadingState' = "idle"
        /\ toolCallName' = NULL
        /\ isLoading' = FALSE
        /\ abortControllerRef' = NULL
    ]_vars

C12_Witness ==
  /\ pc = "idle"
  /\ received = DataLine(<<"{tool}">>) \o <<NL>>
  /\ line = << DataLine(<<"{tool}">>) >>
  /\ messages # <<>>
  /\ loadingState = "idle"
  /\ toolCallName = NULL
  /\ ~isLoading
  /\ abortControllerRef = NULL

\* C13: handleNewConversation, in whatever state it is called, leaves the
\* message log empty, the phase idle, the tool name null and the thread
\* identifier absent in memory and in storage.
C13_NewConversationClears ==
  [][ handleNewConversation =>
        /\ messages' = <<>>
        /\ loadingState' = "idle"
        /\ toolCallName' = NULL
        /\ threadId' = NULL
        /\ threadIdRef' = NULL
        /\ localStorage' = NULL
    ]_vars

\* C14: at most one exchange is in flight.  Every step that starts an
\* exchange (it appends a user message) is taken while no handleSend is
\* running, and the loading flag is down only when none is running.
C14_OneExchange ==
  [][ /\ (Len(messages') = Len(messages) + 1 /\ Last(messages').role = "user")
           => pc = "idle"
      /\ ~isLoading' => pc' = "idle"
    ]_vars

C14_Witness ==
  /\ pc = "fetch"
  /\ isLoading
  /\ Len(messages) = 3
  /\ messages[2].role = "assistant"
  /\ messages[2].content = <<"Hi">>
  /\ messages[3].role = "user"

\* C15: relay forwarding.  After every upstream chunk the relay has read,
\* the bytes it has enqueued downstream are the upstream bytes it has read,
\* in order, also when a chunk ends inside a two-byte character or the
\* upstream body does.
C15_Verbatim == enqueued = upstreamRead

\* C16: when the upstream chat response is not ok, the relay's response is
\* a JSON error whose status is the upstream status and whose details are
\* the upstream error text, and no stream is created or returned.
C16_UpstreamError ==
  (watsonResponse # <<>> /\ ~ok(watsonResponse[1])) =>
    /\ response # <<>>
    /\ response[1].status = watsonResponse[1].status
    /\ response[1].details = watsonResponse[1].text
    /\ ~response[1].stream
    /\ rpc = "done"
    /\ enqueued = <<>> /\ wire = <<>> /\ ~closed

C16_Witness ==
  /\ watsonResponse = << [status |-> 503, text |-> "busy"] >>
  /\ response # <<>>
  /\ response[1].status = 503
  /\ response[1].details = "busy"
  /\ pc = "json"

\* C17 as stated: when the identity service rejects the token exchange with
\* status S, the relay's response is a JSON error with status S, and no
\* upstream chat request is made.
C17_TokenStatus ==
  (tokenResponse # <<>> /\ ~ok(tokenResponse[1])) =>
    /\ response # <<>>
    /\ ~response[1].stream
    /\ response[1].status = tokenResponse[1].status
    /\ headers = <<>>

\* C17, amended: when the identity service rejects the token exchange with
\* status S, the relay's response is a JSON error with status 500 whose
\* message carries S and the identity service's error text, and no upstream
\* chat request is made.
C17_TokenRejected ==
  (tokenResponse # <<>> /\ ~ok(tokenResponse[1])) =>
    /\ response # <<>>
    /\ ~response[1].stream
    /\ response[1].status = 500
    /\ response[1].error = <<"Internal server error">>
    /\ response[1].message = << "Failed to get access token:", tokenResponse[1].status,
                                tokenResponse[1].text >>
    /\ headers = <<>>
    /\ watsonResponse = <<>>

C17_Witness ==
  /\ tokenResponse = << [status |-> 401, text |-> "unauthorized"] >>
  /\ response # <<>>
  /\ response[1].status = 500
  /\ headers = <<>>
  /\ pc = "json"

\* The messages of msgs with the given role.
ofRole(msgs, role) == SelectSeq(msgs, LAMBDA m : m.role = role)

\* C18: transport failure seen by the page.  From the step in which fetch
\* resolves with a response that is not ok, no step of the exchange adds an
\* assistant message; the step that reports the failure keeps every user
\* message, sets the error banner and leaves the thread identifier as it
\* was, in memory and in storage.
C18_TransportFailure ==
  [][ /\ (pc = "json" \/ pc' = "json")
           => Len(ofRole(messages', "assistant")) <= Len(ofRole(messages, "assistant"))
      /\ (pc = "json" /\ pc' = "idle" /\ ~handleStop /\ ~reload)
           => /\ ofRole(messages', "user") = ofRole(messages, "user")
              /\ error' # NULL
              /\ UNCHANGED thread
    ]_vars

C18_Witness ==
  /\ pc = "idle"
  /\ error # NULL
  /\ received = <<>>
  /\ Len(messages) = 3
  /\ messages[2].role = "assistant"
  /\ messages[3].role = "user"
  /\ threadId = "T1"
  /\ localStorage = "T1"

C20_EmptyDiscarded ==
  [][ (handleStop /\ pc = "read" /\ current(messages, assistantMessageId) # <<>>) =>
        IF Content(messages, assistantMessageId) = <<>>
        THEN current(messages', assistantMessageId) = <<>>
        ELSE current(messages', assistantMessageId) = current(messages, assistantMessageId)
    ]_vars

\* A `data: ` line whose record is a completion event.
IsCompletion(l) ==
  /\ RecordOf(l) # <<>>
  /\ RecordOf(l)[1].event \in {"message.completed", "run.completed"}

\* C21: the exchange ends as soon as the sentinel or a completion event is
\* received: the iteration of the for loop that meets `data: [DONE]` or a
\* message.completed / run.completed record takes handleSend through its
\* finally block, and the loading flag is false afterwards.
C21_EndsAtOnce ==
  [][ (pc = "lines" /\ (isDone(Head(lines)) \/ IsCompletion(Head(lines))))
        => (pc' = "idle" /\ isLoading' = FALSE)
    ]_vars

\* C22: buffer invariant.  While the read loop runs, after each chunk the
\* buffer holds no newline and is the text received so far in the exchange
\* that follows the last newline received (empty when the text ends with a
\* newline).
C22_Buffer ==
  pc \in {"read", "lines"} =>
    /\ \A k \in DOMAIN buffer : buffer[k] # NL
    /\ buffer = Unfinished(received)

C22_Witness ==
  /\ pc = "read"
  /\ received = DataLine(<<"{hi}">>) \o <<NL, DATA, SP>>
  /\ buffer = <<DATA, SP>>
  /\ wire # <<>>

\* C23 as stated: at stream end a non-empty buffer is appended to the
\* assistant message as it is, whatever its text, and an empty buffer
\* appends nothing.
C23_ResidualAppended ==
  [][ (pc = "read" /\ pc' = "idle") =>
        Content(messages', assistantMessageId) =
          Content(messages, assistantMessageId) \o buffer
    ]_vars

\* C23, amended: at stream end a buffer that holds more than blanks is
\* appended to the assistant message as it is, untrimmed, whatever its
\* text; an empty buffer and a buffer of blanks append nothing.
C23_ResidualUnlessBlank ==
  [][ (pc = "read" /\ pc' = "idle") =>
        IF \E k \in DOMAIN buffer : buffer[k] # SP
        THEN Content(messages', assistantMessageId) =
               Content(messages, assistantMessageId) \o buffer
        ELSE messages' = messages
    ]_vars

C23_Witness ==
  /\ pc = "idle"
  /\ received = <<":", "ping", NL, SP, "ok", SP>>
  /\ Content(messages, assistantMessageId) = <<SP, "ok", SP>>

\* C24: the iteration that meets `data: [DONE]` drops the remaining lines
\* of its chunk and nothing else: the exchange stays in flight, the bytes
\* in flight and the buffer are kept and handleSend is back at
\* reader.read(); a content line of a later chunk is applied as usual.
C24_DoneStopsChunk ==
  [][ /\ (pc = "lines" /\ isDone(Head(lines)))
           => /\ lines' = <<>>
              /\ pc' = "read"
              /\ isLoading' /\ abortControllerRef' # NULL
              /\ UNCHANGED << wire, buffer, pend, messages, error >>
      /\ (sawDone /\ pc = "lines" /\ IsContentLine(Head(lines)))
           => Content(messages', assistantMessageId) =
                Content(messages, assistantMessageId) \o <<TextOf(Head(lines))>>
    ]_vars

C24_Witness ==
  /\ sawDone
  /\ pc = "read"
  /\ received = DataLine(<<DONE>>) \o <<NL>> \o DataLine(<<"{hi}">>) \o <<NL>>
  /\ line = << DataLine(<<"{hi}">>) >>
  /\ Content(messages, assistantMessageId) = <<"Hi">>

\* A line the for loop appends as plain text, and a line it skips.
IsPlain(l) ==
  LET t == trim(l)
  IN  t # <<>> /\ ~startsWith(t, <<":">>) /\ ~startsWith(t, DataPrefix)

IsSkipped(l) == trim(l) = <<>> \/ startsWith(trim(l), <<":">>)

\* C25: the iteration over a complete line that, trimmed, is non-empty and
\* starts neither with `:` nor with `data: ` appends the trimmed line and
\* one line break to the assistant message and leaves phase, tool name and
\* thread identifier as they were; the iteration over an empty line or a
\* line starting with `:` changes nothing of the page.
C25_PlainLines ==
  [][ pc = "lines" =>
        /\ IsPlain(Head(lines)) =>
              /\ Content(messages', assistantMessageId) =
                   Content(messages, assistantMessageId) \o trim(Head(lines)) \o <<NL>>
              /\ UNCHANGED << loadingState, toolCallName, thread >>
        /\ IsSkipped(Head(lines)) =>
              UNCHANGED << messages, ui, thread, abortControllerRef >>
    ]_vars

C25_Witness ==
  /\ pc = "read"
  /\ received = <<DATA, SP, NL, SP, "ok", SP, NL>>
  /\ Content(messages, assistantMessageId) = <<DATA, NL, "ok", NL>>
  /\ loadingState = "thinking"

\* The first string among the three places of a record that may hold the
\* thread identifier, top-level first; NULL when none holds a string.
FirstString(r) ==
  IF IsString(r.thread_id) THEN r.thread_id
  ELSE IF IsString(r.d_thread_id) THEN r.d_thread_id
  ELSE IF IsString(r.c_thread_id) THEN r.c_thread_id
  ELSE NULL

\* C26: thread-identifier extraction.  When no identifier is held, the
\* iteration over a record that has a string identifier at top level, under
\* data or under context sets the identifier, in memory and in storage, to
\* the first string found in that order.
C26_FirstString ==
  [][ ( /\ pc = "lines"
        /\ RecordOf(Head(lines)) # <<>>
        /\ ~Truthy(Held) /\ ~Truthy(threadIdSeen)
        /\ FirstString(RecordOf(Head(lines))[1]) # NULL )
      => /\ threadId' = FirstString(RecordOf(Head(lines))[1])
         /\ threadIdRef' = threadId'
         /\ localStorage' = threadId'
    ]_vars

\* The texts the content rules take from record r, in the order of the rules.
TextsOf(r) ==
  (IF Truthy(r.choices) THEN <<r.choices>> ELSE <<>>)
  \o (IF Truthy(r.content) THEN <<r.content>> ELSE <<>>)
  \o (IF r.event = "message.delta" /\ Truthy(r.d_content) THEN <<r.d_content>> ELSE <<>>)

\* The phases the rules keyed on the event tag of a record can set.
PhasesOf(event) ==
  CASE event = "message.delta" -> {"streaming"}
    [] event \in {"run.step.thinking", "planning"} -> {"thinking"}
    [] event = "run.step.started" -> {"tool-call"}
    [] event \in {"run.step.completed", "run.step.delta"} -> {"streaming"}
    [] event \in {"message.completed", "run.completed"} -> {"idle"}
    [] OTHER -> {}

\* C27: the iteration over a record appends the text of every content rule
\* the record meets, once each and in the order of the rules (nested
\* choice/delta content, top-level content, message.delta with nested
\* content), and leaves the phase either as it was or as the one rule keyed
\* on the record's event tag sets it.
C27_RulesInOrder ==
  [][ (pc = "lines" /\ RecordOf(Head(lines)) # <<>>) =>
        LET r == RecordOf(Head(lines))[1]
        IN  /\ Content(messages', assistantMessageId) =
                 Content(messages, assistantMessageId) \o TextsOf(r)
            /\ loadingState' \in {loadingState} \cup PhasesOf(r.event)
    ]_vars

C27_Witness ==
  /\ pc = "read"
  /\ received = DataLine(<<"{all}">>) \o <<NL>> \o DataLine(<<"{step.content}">>) \o <<NL>>
  /\ Content(messages, assistantMessageId) = <<"A", "B", "C", "B">>
  /\ loadingState = "streaming"

\* C28: no two messages of the log have the same id.
C28_UniqueIds ==
  \A i, k \in DOMAIN messages : messages[i].id = messages[k].id => i = k

\* C29: every assistant message of the log comes right after a user
\* message, the one of its own exchange; an exchange that was running when
\* handleNewConversation emptied the log adds no message to it.
C29_NoStrayMessage ==
  \A i \in DOMAIN messages :
    messages[i].role = "assistant" => (i > 1 /\ messages[i - 1].role = "user")

\* C30: while the exchange that was running when handleNewConversation
\* emptied the log is still running on the empty log, no step sets the
\* thread identifier, in memory or in storage.
C30_NoStrayThread ==
  [][ (pc # "idle" /\ messages = <<>> /\ ~Truthy(Held))
        => (~Truthy(threadId') /\ ~Truthy(threadIdRef') /\ ~Truthy(localStorage'))
    ]_vars

====
